---- MODULE Spec2Model ----
(***************************************************************************)
(* A model of StScrollView (src/st/st-scroll-view.c): the private state of *)
(* the widget, the layout entry points (get_preferred_width,               *)
(* get_preferred_height, allocate), the scroll-event router, the container *)
(* add/remove overrides and the public setters.                            *)
(*                                                                         *)
(* Every operation is one action.  What an operation does to its           *)
(* collaborators (boxes handed to clutter_actor_allocate, deltas handed to *)
(* st_adjustment_adjust_for_scroll_event, property notifications that were *)
(* dispatched, relayout requests) is recorded in the variable out, which   *)
(* always describes the most recent operation only.                        *)
(*                                                                         *)
(* gfloat quantities are modelled as integers.                             *)
(***************************************************************************)
EXTENDS Integers, Sequences, FiniteSets, TLC

(***************************************************************************)
(* Bounds of the model.                                                    *)
(***************************************************************************)
MaxDim == 2        \* child sizes range over 0..MaxDim
MaxDelta == 1      \* smooth scroll deltas range over -MaxDelta..MaxDelta
MaxStep == 1       \* row/column sizes range over -1..MaxStep

(***************************************************************************)
(* Values.                                                                 *)
(***************************************************************************)
NULL == "NULL"

ST_POLICY_ALWAYS == "ALWAYS"
ST_POLICY_AUTOMATIC == "AUTOMATIC"
ST_POLICY_NEVER == "NEVER"
ST_POLICY_EXTERNAL == "EXTERNAL"
StPolicyType == {ST_POLICY_ALWAYS, ST_POLICY_AUTOMATIC, ST_POLICY_NEVER, ST_POLICY_EXTERNAL}

CLUTTER_TEXT_DIRECTION_LTR == "LTR"
CLUTTER_TEXT_DIRECTION_RTL == "RTL"
ClutterTextDirection == {CLUTTER_TEXT_DIRECTION_LTR, CLUTTER_TEXT_DIRECTION_RTL}

CLUTTER_SCROLL_UP == "UP"
CLUTTER_SCROLL_DOWN == "DOWN"
CLUTTER_SCROLL_LEFT == "LEFT"
CLUTTER_SCROLL_RIGHT == "RIGHT"
CLUTTER_SCROLL_SMOOTH == "SMOOTH"
ClutterScrollDirection == {CLUTTER_SCROLL_UP, CLUTTER_SCROLL_DOWN, CLUTTER_SCROLL_LEFT, CLUTTER_SCROLL_RIGHT, CLUTTER_SCROLL_SMOOTH}

CLUTTER_REQUEST_HEIGHT_FOR_WIDTH == "HEIGHT_FOR_WIDTH"

PROP_HSCROLLBAR_POLICY == "hscrollbar-policy"
PROP_VSCROLLBAR_POLICY == "vscrollbar-policy"
PROP_HSCROLLBAR_VISIBLE == "hscrollbar-visible"
PROP_VSCROLLBAR_VISIBLE == "vscrollbar-visible"
PROP_MOUSE_SCROLL == "enable-mouse-scrolling"
PROP_OVERLAY_SCROLLBARS == "overlay-scrollbars"

\* The two scrollbar actors created by st_scroll_view_init.
HScrollBar == "hscroll_bar"
VScrollBar == "vscroll_bar"
\* Actors implementing StScrollable, and actors that do not.
Scrollables == {"c1", "c2"}
NonScrollables == {"w1"}
Actors == Scrollables \cup NonScrollables \cup {HScrollBar, VScrollBar}

Max(a, b) == IF a > b THEN a ELSE b

VARIABLES
  child,               \* priv->child: NULL or the tracked scrollable actor
  hscroll,             \* priv->hscroll: the horizontal scrollbar actor or NULL
  vscroll,             \* priv->vscroll
  hscrollbar_policy,
  vscrollbar_policy,
  row_size,
  column_size,
  row_size_set,
  column_size_set,
  fade_effect,         \* priv->fade_effect: NULL or the effect object
  mouse_scroll,
  overlay_scrollbars,
  hscrollbar_visible,
  vscrollbar_visible,
  hadj_step,           \* "step-increment" of priv->hadjustment
  vadj_step,           \* "step-increment" of priv->vadjustment
  effects,             \* the fade effects attached to the actor: a sequence of margins
  text_direction,      \* clutter_actor_get_text_direction (actor)
  hscroll_shown,       \* clutter_actor_is_visible of the horizontal scrollbar actor
  vscroll_shown,       \* clutter_actor_is_visible of the vertical scrollbar actor
  aborted,             \* a fatal assertion ended the program
  out                  \* what the most recent operation did to its collaborators

priv == <<child, hscroll, vscroll, hscrollbar_policy, vscrollbar_policy,
          row_size, column_size, row_size_set, column_size_set, fade_effect,
          mouse_scroll, overlay_scrollbars, hscrollbar_visible, vscrollbar_visible>>
env == <<hadj_step, vadj_step, effects, text_direction, hscroll_shown, vscroll_shown>>
vars == <<priv, env, aborted, out>>

(***************************************************************************)
(* The record of an operation.  Optional values are sequences of length    *)
(* zero or one.                                                            *)
(***************************************************************************)
NoOut ==
  [op |-> "init", arg |-> <<>>,
   notified |-> <<>>,      \* notifications dispatched to observers, in order
   relayouts |-> 0,        \* calls of clutter_actor_queue_relayout
   content_box |-> <<>>,
   vscroll_box |-> <<>>,   \* box given to clutter_actor_allocate (priv->vscroll)
   hscroll_box |-> <<>>,
   child_box |-> <<>>,
   measured |-> <<>>,      \* for_width of each clutter_actor_get_preferred_height (child)
   result |-> <<>>,        \* return value / out parameters
   hdeltas |-> <<>>,       \* deltas given to the horizontal adjustment
   vdeltas |-> <<>>,       \* deltas given to the vertical adjustment
   parent_add |-> <<>>,    \* actor handed to StBin's add
   parent_remove |-> <<>>, \* actor handed to StBin's remove
   adjustments |-> <<>>,   \* st_scrollable_set_adjustments calls
   remove_child |-> <<>>,  \* actor handed to clutter_actor_remove_child
   repeated |-> FALSE,     \* the operation before was the same call of allocate
   warnings |-> 0]

(***************************************************************************)
(* GObject property notification: freeze, notify, thaw.  o is the object   *)
(* as observers can read it, with its freeze count, its queue of pending   *)
(* notifications and the log of notifications dispatched so far; a         *)
(* dispatched notification carries what its observer reads at that moment. *)
(***************************************************************************)
Object(hv, vv, hp, vp) ==
  [hvis |-> hv, vvis |-> vv, hpol |-> hp, vpol |-> vp,
   frozen |-> 0, pending |-> <<>>, log |-> <<>>]

Dispatch(o, props) ==
  [o EXCEPT !.log = @ \o [i \in 1..Len(props) |->
      [prop |-> props[i], hvis |-> o.hvis, vvis |-> o.vvis, hpol |-> o.hpol, vpol |-> o.vpol]]]

g_object_freeze_notify(o) == [o EXCEPT !.frozen = @ + 1]

g_object_notify_by_pspec(o, prop) ==
  IF o.frozen > 0
    THEN IF \E i \in 1..Len(o.pending) : o.pending[i] = prop
           THEN o
           ELSE [o EXCEPT !.pending = Append(@, prop)]
    ELSE Dispatch(o, <<prop>>)

g_object_thaw_notify(o) ==
  IF o.frozen = 1
    THEN Dispatch([o EXCEPT !.frozen = 0, !.pending = <<>>], o.pending)
    ELSE [o EXCEPT !.frozen = @ - 1]

(***************************************************************************)
(* Collaborators' size reports.  What the child, the scrollbars and the    *)
(* theme report during one operation is the operation's input r.           *)
(***************************************************************************)
\* clutter_actor_get_preferred_width (priv->child, -1, &min, &natural)
ChildPreferredWidth(r) == [min |-> r.cmw, nat |-> r.cmw + r.extra]

\* clutter_actor_get_preferred_height (priv->child, for_width, &min, &natural):
\* the child reports one height from width r.wrap on, another below it.
ChildPreferredHeight(r, for_width) ==
  LET m == IF for_width < 0 \/ for_width >= r.wrap THEN r.hw ELSE r.hn
  IN [min |-> m, nat |-> m + r.extra]

\* st_theme_node_get_content_box: the box, in the actor's own coordinates,
\* without the theme's inset on each side.
ContentBox(r, box) ==
  LET w == box.x2 - box.x1
      h == box.y2 - box.y1
  IN [x1 |-> r.inset, y1 |-> r.inset,
      x2 |-> Max(r.inset, w - r.inset),
      y2 |-> Max(r.inset, h - r.inset)]

\* The actor's request mode; StScrollView leaves it at the actor's default.
clutter_actor_get_request_mode == CLUTTER_REQUEST_HEIGHT_FOR_WIDTH

\* st_theme_node_adjust_for_width / _for_height: a constraint without the insets.
AdjustFor(r, for_size) ==
  IF for_size >= 0 THEN Max(0, for_size - 2 * r.inset) ELSE for_size

\* st_theme_node_adjust_preferred_width / _height: a size with the insets.
AdjustPreferred(r, size) == size + 2 * r.inset

\* A plausible slip: the stored flag is read instead of the actor's visibility.
get_scrollbar_width_stored(r, for_height) ==
  IF vscroll # NULL /\ vscrollbar_visible THEN r.sbw ELSE 0

\* A plausible slip: the test of the actor's visibility is inverted.
get_scrollbar_width_inverted(r, for_height) ==
  IF vscroll # NULL /\ ~vscroll_shown THEN r.sbw ELSE 0

get_scrollbar_width(r, for_height) ==
  IF vscroll # NULL /\ vscroll_shown THEN r.sbw ELSE 0

get_scrollbar_height(r, for_width) ==
  IF hscroll # NULL /\ hscroll_shown THEN r.sbh ELSE 0

(***************************************************************************)
(* st_scroll_view_allocate: which scrollbars are visible.                  *)
(***************************************************************************)
\* A plausible slip: EXTERNAL is forgotten.
PolicyVisibleNotNever(policy) == policy # ST_POLICY_NEVER

\* A plausible slip: without a child AUTOMATIC shows nothing.
PolicyVisibleAlwaysOnly(policy) == policy = ST_POLICY_ALWAYS

\* Without a child, the policy alone decides.
PolicyVisible(policy) == policy # ST_POLICY_NEVER /\ policy # ST_POLICY_EXTERNAL

\* A plausible slip: pass one tests the width as if no vertical scrollbar
\* could take any of it.
PassOneHorizontalFullWidth(child_min_width, avail_width, sb_width, vvis) ==
  child_min_width > avail_width

\* The horizontal decision of pass one, given its first vertical decision.
PassOneHorizontal(child_min_width, avail_width, sb_width, vvis) ==
  child_min_width > avail_width - (IF vvis THEN sb_width ELSE 0)

ScrollbarsVisible(r, avail_width, avail_height, sb_width, sb_height) ==
  IF child # NULL
    THEN
      LET child_min_width == ChildPreferredWidth(r).min
      IN IF vscrollbar_policy = ST_POLICY_AUTOMATIC
           THEN IF hscrollbar_policy = ST_POLICY_AUTOMATIC
                  THEN \* Pass one, try without a vertical scrollbar
                    LET h1 == ChildPreferredHeight(r, avail_width).min
                        v1 == h1 > avail_height
                        hv1 == PassOneHorizontal(child_min_width, avail_width, sb_width, v1)
                        v2 == h1 > avail_height - (IF hv1 THEN sb_height ELSE 0)
                    IN \* Pass two, a new preferred height with the vertical scrollbar
                       IF v2
                         THEN [h |-> child_min_width > avail_width - sb_width,
                               v |-> v2,
                               h_pass_one |-> hv1,
                               measured |-> <<avail_width, Max(avail_width - sb_width, 0)>>,
                               child_min_height |-> ChildPreferredHeight(r, Max(avail_width - sb_width, 0)).min]
                         ELSE [h |-> hv1, v |-> v2, h_pass_one |-> hv1,
                               measured |-> <<avail_width>>,
                               child_min_height |-> h1]
                  ELSE
                    LET hv == hscrollbar_policy = ST_POLICY_ALWAYS
                        h1 == ChildPreferredHeight(r, avail_width).min
                    IN [h |-> hv,
                        v |-> h1 > avail_height - (IF hv THEN sb_height ELSE 0),
                        h_pass_one |-> hv,
                        measured |-> <<avail_width>>,
                        child_min_height |-> h1]
           ELSE
             LET vv == vscrollbar_policy = ST_POLICY_ALWAYS
                 hv == IF hscrollbar_policy = ST_POLICY_AUTOMATIC
                         THEN child_min_width > avail_height - (IF vv THEN 0 ELSE sb_width)
                         ELSE hscrollbar_policy = ST_POLICY_ALWAYS
             IN [h |-> hv, v |-> vv, h_pass_one |-> hv, measured |-> <<>>, child_min_height |-> 0]
    ELSE
      [h |-> PolicyVisible(hscrollbar_policy),
       v |-> PolicyVisible(vscrollbar_policy),
       h_pass_one |-> PolicyVisible(hscrollbar_policy),
       measured |-> <<>>, child_min_height |-> 0]

\* A plausible slip: the text direction is ignored.
VScrollBoxTrailing(content_box, sb_width, sb_height, hvis) ==
  [x1 |-> content_box.x2 - sb_width,
   x2 |-> content_box.x2,
   y1 |-> content_box.y1,
   y2 |-> content_box.y2 - (IF hvis THEN sb_height ELSE 0)]

\* The box of the vertical scrollbar.
VScrollBox(content_box, sb_width, sb_height, hvis) ==
  [x1 |-> IF text_direction = CLUTTER_TEXT_DIRECTION_RTL
            THEN content_box.x1 ELSE content_box.x2 - sb_width,
   x2 |-> IF text_direction = CLUTTER_TEXT_DIRECTION_RTL
            THEN content_box.x1 + sb_width ELSE content_box.x2,
   y1 |-> content_box.y1,
   y2 |-> content_box.y2 - (IF hvis THEN sb_height ELSE 0)]

\* The box of the horizontal scrollbar.
HScrollBox(content_box, sb_width, sb_height, vvis) ==
  [x1 |-> IF text_direction = CLUTTER_TEXT_DIRECTION_RTL
            THEN content_box.x1 + (IF vvis THEN sb_width ELSE 0) ELSE content_box.x1,
   x2 |-> IF text_direction = CLUTTER_TEXT_DIRECTION_RTL
            THEN content_box.x2 ELSE content_box.x2 - (IF vvis THEN sb_width ELSE 0),
   y1 |-> content_box.y2 - sb_height,
   y2 |-> content_box.y2]

\* The scrollbar sizes that are taken away from the child's box.
TrimHeight(sb_height) ==
  IF hscrollbar_policy = ST_POLICY_NEVER \/ hscrollbar_policy = ST_POLICY_EXTERNAL \/ overlay_scrollbars
    THEN 0 ELSE sb_height

TrimWidth(sb_width) ==
  IF vscrollbar_policy = ST_POLICY_NEVER \/ vscrollbar_policy = ST_POLICY_EXTERNAL \/ overlay_scrollbars
    THEN 0 ELSE sb_width

\* The box of the child.
ChildBox(content_box, sb_width, sb_height) ==
  [x1 |-> IF text_direction = CLUTTER_TEXT_DIRECTION_RTL
            THEN content_box.x1 + sb_width ELSE content_box.x1,
   x2 |-> IF text_direction = CLUTTER_TEXT_DIRECTION_RTL
            THEN content_box.x2 ELSE content_box.x2 - sb_width,
   y1 |-> content_box.y1,
   y2 |-> content_box.y2 - sb_height]

\* A plausible slip: both properties are notified whether they changed or not.
NotifyVisibleAlways(hvis, vvis) ==
  g_object_notify_by_pspec(
    g_object_notify_by_pspec(
      [Object(hscrollbar_visible, vscrollbar_visible, hscrollbar_policy, vscrollbar_policy)
         EXCEPT !.hvis = hvis, !.vvis = vvis],
      PROP_HSCROLLBAR_VISIBLE),
    PROP_VSCROLLBAR_VISIBLE)

\* The tail of allocate: store the flags that changed and notify.
NotifyVisible(hvis, vvis) ==
  LET o0 == Object(hscrollbar_visible, vscrollbar_visible, hscrollbar_policy, vscrollbar_policy)
      o1 == IF o0.hvis # hvis
              THEN g_object_thaw_notify(
                     g_object_notify_by_pspec(
                       [g_object_freeze_notify(o0) EXCEPT !.hvis = hvis],
                       PROP_HSCROLLBAR_VISIBLE))
              ELSE o0
      o2 == IF o1.vvis # vvis
              THEN g_object_thaw_notify(
                     g_object_notify_by_pspec(
                       [g_object_freeze_notify(o1) EXCEPT !.vvis = vvis],
                       PROP_VSCROLLBAR_VISIBLE))
              ELSE o1
  IN o2

Allocate(box, r) ==
  LET content_box == ContentBox(r, box)
      avail_width == content_box.x2 - content_box.x1
      avail_height == content_box.y2 - content_box.y1
      hfw == clutter_actor_get_request_mode = CLUTTER_REQUEST_HEIGHT_FOR_WIDTH
      sb_width == IF hfw THEN get_scrollbar_width(r, -1)
                         ELSE get_scrollbar_width(r, get_scrollbar_height(r, -1))
      sb_height == IF hfw THEN get_scrollbar_height(r, sb_width)
                          ELSE get_scrollbar_height(r, -1)
      vis == ScrollbarsVisible(r, avail_width, avail_height, sb_width, sb_height)
      o == NotifyVisible(vis.h, vis.v)
  IN
     /\ ~aborted
     /\ hscrollbar_visible' = o.hvis
     /\ vscrollbar_visible' = o.vvis
     /\ out' = [NoOut EXCEPT
                  !.op = "allocate",
                  !.arg = <<box, r>>,
                  !.repeated = (out.op = "allocate" /\ out.arg = <<box, r>>),
                  !.content_box = <<content_box>>,
                  !.vscroll_box = IF vscroll # NULL
                                    THEN <<VScrollBox(content_box, sb_width, sb_height, vis.h)>>
                                    ELSE <<>>,
                  !.hscroll_box = IF hscroll # NULL
                                    THEN <<HScrollBox(content_box, sb_width, sb_height, vis.v)>>
                                    ELSE <<>>,
                  !.child_box = IF child # NULL
                                  THEN <<ChildBox(content_box, TrimWidth(sb_width), TrimHeight(sb_height))>>
                                  ELSE <<>>,
                  !.measured = vis.measured,
                  !.result = <<[h_pass_one |-> vis.h_pass_one,
                                child_min_height |-> vis.child_min_height,
                                sb_width |-> sb_width, sb_height |-> sb_height]>>,
                  !.notified = o.log]
     /\ UNCHANGED <<child, hscroll, vscroll, hscrollbar_policy, vscrollbar_policy,
                    row_size, column_size, row_size_set, column_size_set, fade_effect,
                    mouse_scroll, overlay_scrollbars, env, aborted>>

(***************************************************************************)
(* st_scroll_view_get_preferred_width / _height.                           *)
(***************************************************************************)
\* A plausible slip: the overlay setting is forgotten.
AccountForVScrollbarOverlaid ==
  vscrollbar_policy \notin {ST_POLICY_NEVER, ST_POLICY_EXTERNAL}

\* account_for_vscrollbar after the switch on the vertical policy.
AccountForVScrollbar ==
  IF vscrollbar_policy \in {ST_POLICY_NEVER, ST_POLICY_EXTERNAL}
    THEN FALSE
    ELSE ~overlay_scrollbars

GetPreferredWidth(for_height_in, r) ==
  LET for_height == AdjustFor(r, for_height_in)
      child_w == ChildPreferredWidth(r)
      min_width == IF hscrollbar_policy = ST_POLICY_NEVER THEN child_w.min ELSE 0
      natural_width == child_w.nat
      account_for_vscrollbar == AccountForVScrollbar
      sb_width == IF account_for_vscrollbar THEN get_scrollbar_width(r, for_height) ELSE 0
  IN /\ ~aborted
     /\ out' = [NoOut EXCEPT
                  !.op = "get_preferred_width",
                  !.arg = <<for_height_in, r>>,
                  !.result = IF child = NULL
                               THEN <<>>
                               ELSE <<[min |-> AdjustPreferred(r, min_width + sb_width),
                                       nat |-> AdjustPreferred(r, natural_width + sb_width),
                                       min_content |-> min_width + sb_width,
                                       nat_content |-> natural_width + sb_width,
                                       allowance |-> sb_width]>>]
     /\ UNCHANGED <<priv, env, aborted>>

GetPreferredHeight(for_width_in, r) ==
  LET for_width0 == AdjustFor(r, for_width_in)
      sb_width == get_scrollbar_width(r, -1)
      for_width == IF vscrollbar_policy \in {ST_POLICY_ALWAYS, ST_POLICY_AUTOMATIC}
                     THEN for_width0 - sb_width
                     ELSE for_width0
      account_for_hscrollbar ==
        IF hscrollbar_policy \in {ST_POLICY_NEVER, ST_POLICY_EXTERNAL}
          THEN FALSE
          ELSE ~overlay_scrollbars
      child_h == ChildPreferredHeight(r, for_width)
      natural_height == child_h.nat
      min_height == IF vscrollbar_policy = ST_POLICY_NEVER THEN child_h.min ELSE 0
      sb_height == IF account_for_hscrollbar THEN get_scrollbar_height(r, for_width) ELSE 0
  IN /\ ~aborted
     /\ out' = [NoOut EXCEPT
                  !.op = "get_preferred_height",
                  !.arg = <<for_width_in, r>>,
                  !.measured = IF child = NULL THEN <<>> ELSE <<for_width>>,
                  !.result = IF child = NULL
                               THEN <<>>
                               ELSE <<[min |-> AdjustPreferred(r, min_height + sb_height),
                                       nat |-> AdjustPreferred(r, natural_height + sb_height),
                                       min_content |-> min_height + sb_height,
                                       nat_content |-> natural_height + sb_height,
                                       allowance |-> sb_height,
                                       subtracted |-> for_width0 - for_width]>>]
     /\ UNCHANGED <<priv, env, aborted>>

(***************************************************************************)
(* st_scroll_view_scroll_event.                                            *)
(***************************************************************************)
\* The delta adjust_with_direction hands to the adjustment; none when it
\* ends in g_assert_not_reached.
adjust_with_direction(direction) ==
  IF direction \in {CLUTTER_SCROLL_UP, CLUTTER_SCROLL_LEFT} THEN <<-1>>
  ELSE IF direction \in {CLUTTER_SCROLL_RIGHT, CLUTTER_SCROLL_DOWN} THEN <<1>>
  ELSE <<>>

\* The direction handed to adjust_with_direction for a LEFT/RIGHT event.
HorizontalDirection(scroll_direction) ==
  IF text_direction = CLUTTER_TEXT_DIRECTION_RTL
    THEN IF scroll_direction = CLUTTER_SCROLL_LEFT
           THEN CLUTTER_SCROLL_RIGHT ELSE CLUTTER_SCROLL_LEFT
    ELSE scroll_direction

\* A plausible slip: the text direction is ignored.
SmoothDeltaXUnmirrored(delta_x) == delta_x

\* The horizontal delta of a smooth event.
SmoothDeltaX(delta_x) ==
  IF text_direction = CLUTTER_TEXT_DIRECTION_RTL THEN delta_x * (-1) ELSE delta_x

\* A plausible slip: pointer-emulated events are not filtered.
ScrollRoutedEmulated(event) == mouse_scroll

\* Whether the event gets past the two early returns.
ScrollRouted(event) == mouse_scroll /\ ~event.emulated

\* The return value of the handler.
ScrollHandled(event) == IF ~mouse_scroll THEN FALSE ELSE TRUE

ScrollEvent(event) ==
  LET scroll_direction == event.direction
      routed == ScrollRouted(event)
      hd == IF ~routed THEN <<>>
            ELSE IF scroll_direction = CLUTTER_SCROLL_SMOOTH THEN <<SmoothDeltaX(event.dx)>>
            ELSE IF scroll_direction \in {CLUTTER_SCROLL_LEFT, CLUTTER_SCROLL_RIGHT}
              THEN adjust_with_direction(HorizontalDirection(scroll_direction))
            ELSE <<>>
      vd == IF ~routed THEN <<>>
            ELSE IF scroll_direction = CLUTTER_SCROLL_SMOOTH THEN <<event.dy>>
            ELSE IF scroll_direction \in {CLUTTER_SCROLL_UP, CLUTTER_SCROLL_DOWN}
              THEN adjust_with_direction(scroll_direction)
            ELSE <<>>
  IN /\ ~aborted
     /\ out' = [NoOut EXCEPT
                  !.op = "scroll_event",
                  !.arg = <<event>>,
                  !.result = <<ScrollHandled(event)>>,
                  !.hdeltas = hd,
                  !.vdeltas = vd,
                  !.warnings = IF routed /\ scroll_direction \notin ClutterScrollDirection
                                 THEN 1 ELSE 0]
     /\ UNCHANGED <<priv, env, aborted>>

(***************************************************************************)
(* The public setters.                                                     *)
(***************************************************************************)
\* A plausible slip: the two policies are stored the wrong way round.
PolicyChangeSwapped(hpolicy, vpolicy) ==
  LET o0 == g_object_freeze_notify(
              Object(hscrollbar_visible, vscrollbar_visible, hscrollbar_policy, vscrollbar_policy))
      o1 == IF o0.hpol # hpolicy
              THEN g_object_notify_by_pspec([o0 EXCEPT !.hpol = vpolicy], PROP_HSCROLLBAR_POLICY)
              ELSE o0
      o2 == IF o1.vpol # vpolicy
              THEN g_object_notify_by_pspec([o1 EXCEPT !.vpol = hpolicy], PROP_VSCROLLBAR_POLICY)
              ELSE o1
  IN [o |-> g_object_thaw_notify(o2), relayouts |-> 1]

\* st_scroll_view_set_policy after its early return: the object after the
\* stores and notifications, and the relayout requests.
PolicyChange(hpolicy, vpolicy) ==
  LET o0 == g_object_freeze_notify(
              Object(hscrollbar_visible, vscrollbar_visible, hscrollbar_policy, vscrollbar_policy))
      o1 == IF o0.hpol # hpolicy
              THEN g_object_notify_by_pspec([o0 EXCEPT !.hpol = hpolicy], PROP_HSCROLLBAR_POLICY)
              ELSE o0
      o2 == IF o1.vpol # vpolicy
              THEN g_object_notify_by_pspec([o1 EXCEPT !.vpol = vpolicy], PROP_VSCROLLBAR_POLICY)
              ELSE o1
  IN [o |-> g_object_thaw_notify(o2), relayouts |-> 1]

SetPolicy(hpolicy, vpolicy) ==
  LET same == hscrollbar_policy = hpolicy /\ vscrollbar_policy = vpolicy
      c == PolicyChange(hpolicy, vpolicy)
  IN /\ ~aborted
     /\ hscrollbar_policy' = IF same THEN hscrollbar_policy ELSE c.o.hpol
     /\ vscrollbar_policy' = IF same THEN vscrollbar_policy ELSE c.o.vpol
     /\ out' = [NoOut EXCEPT
                  !.op = "set_policy",
                  !.arg = <<hpolicy, vpolicy>>,
                  !.notified = IF same THEN <<>> ELSE c.o.log,
                  !.relayouts = IF same THEN 0 ELSE c.relayouts]
     /\ UNCHANGED <<child, hscroll, vscroll, row_size, column_size, row_size_set,
                    column_size_set, fade_effect, mouse_scroll, overlay_scrollbars,
                    hscrollbar_visible, vscrollbar_visible, env, aborted>>

\* st_scroll_view_get_property
GetProperty(property_id) ==
  CASE property_id = PROP_HSCROLLBAR_POLICY -> hscrollbar_policy
    [] property_id = PROP_VSCROLLBAR_POLICY -> vscrollbar_policy
    [] property_id = PROP_HSCROLLBAR_VISIBLE -> hscrollbar_visible
    [] property_id = PROP_VSCROLLBAR_VISIBLE -> vscrollbar_visible
    [] property_id = PROP_MOUSE_SCROLL -> mouse_scroll
    [] property_id = PROP_OVERLAY_SCROLLBARS -> overlay_scrollbars

\* A plausible slip: the setter does not compare with the stored value.
OverlayChangedAlways(enabled) == TRUE

\* The guard of st_scroll_view_set_overlay_scrollbars.
OverlayChanged(enabled) == overlay_scrollbars # enabled

SetOverlayScrollbars(enabled) ==
  LET changed == OverlayChanged(enabled)
      o == Object(hscrollbar_visible, vscrollbar_visible, hscrollbar_policy, vscrollbar_policy)
  IN /\ ~aborted
     /\ overlay_scrollbars' = IF changed THEN enabled ELSE overlay_scrollbars
     /\ out' = [NoOut EXCEPT
                  !.op = "set_overlay_scrollbars",
                  !.arg = <<enabled>>,
                  !.notified = IF changed
                                 THEN g_object_notify_by_pspec(o, PROP_OVERLAY_SCROLLBARS).log
                                 ELSE <<>>,
                  !.relayouts = IF changed THEN 1 ELSE 0]
     /\ UNCHANGED <<child, hscroll, vscroll, hscrollbar_policy, vscrollbar_policy,
                    row_size, column_size, row_size_set, column_size_set, fade_effect,
                    mouse_scroll, hscrollbar_visible, vscrollbar_visible, env, aborted>>

SetMouseScrolling(enabled) ==
  LET changed == mouse_scroll # enabled
      o == Object(hscrollbar_visible, vscrollbar_visible, hscrollbar_policy, vscrollbar_policy)
  IN /\ ~aborted
     /\ mouse_scroll' = IF changed THEN enabled ELSE mouse_scroll
     /\ out' = [NoOut EXCEPT
                  !.op = "set_mouse_scrolling",
                  !.arg = <<enabled>>,
                  !.notified = IF changed
                                 THEN g_object_notify_by_pspec(o, PROP_MOUSE_SCROLL).log
                                 ELSE <<>>]
     /\ UNCHANGED <<child, hscroll, vscroll, hscrollbar_policy, vscrollbar_policy,
                    row_size, column_size, row_size_set, column_size_set, fade_effect,
                    overlay_scrollbars, hscrollbar_visible, vscrollbar_visible, env, aborted>>

SetRowSize(size) ==
  /\ ~aborted
  /\ row_size_set' = ~(size < 0)
  /\ row_size' = IF size < 0 THEN -1 ELSE size
  /\ vadj_step' = IF size < 0 THEN vadj_step ELSE size
  /\ out' = [NoOut EXCEPT !.op = "set_row_size", !.arg = <<size>>]
  /\ UNCHANGED <<child, hscroll, vscroll, hscrollbar_policy, vscrollbar_policy,
                 column_size, column_size_set, fade_effect, mouse_scroll, overlay_scrollbars,
                 hscrollbar_visible, vscrollbar_visible,
                 hadj_step, effects, text_direction, hscroll_shown, vscroll_shown, aborted>>

SetColumnSize(size) ==
  /\ ~aborted
  /\ column_size_set' = ~(size < 0)
  /\ column_size' = IF size < 0 THEN -1 ELSE size
  /\ hadj_step' = IF size < 0 THEN hadj_step ELSE size
  /\ out' = [NoOut EXCEPT !.op = "set_column_size", !.arg = <<size>>]
  /\ UNCHANGED <<child, hscroll, vscroll, hscrollbar_policy, vscrollbar_policy,
                 row_size, row_size_set, fade_effect, mouse_scroll, overlay_scrollbars,
                 hscrollbar_visible, vscrollbar_visible,
                 vadj_step, effects, text_direction, hscroll_shown, vscroll_shown, aborted>>

\* st_scroll_view_get_row_size / st_scroll_view_get_column_size
GetRowSize == vadj_step
GetColumnSize == hadj_step

(***************************************************************************)
(* st_scroll_view_update_fade_effect.                                      *)
(***************************************************************************)
\* A plausible slip: the four tests are joined by && instead of ||.
NonZeroMarginsAll(m) == m.left # 0 /\ m.right # 0 /\ m.top # 0 /\ m.bottom # 0

\* A fade amount of other than 0 enables the effect.
NonZeroMargins(m) == m.left # 0 \/ m.right # 0 \/ m.top # 0 \/ m.bottom # 0

UpdateFadeEffect(fade_margins) ==
  /\ ~aborted
  /\ IF NonZeroMargins(fade_margins)
       THEN /\ fade_effect' = "fade"
            /\ effects' = IF fade_effect = NULL
                            THEN Append(effects, fade_margins)
                            ELSE [effects EXCEPT ![Len(effects)] = fade_margins]
       ELSE /\ fade_effect' = NULL
            /\ effects' = IF fade_effect # NULL
                            THEN SubSeq(effects, 1, Len(effects) - 1)
                            ELSE effects
  /\ out' = [NoOut EXCEPT
               !.op = "update_fade_effect",
               !.arg = <<fade_margins>>,
               \* the calls of clutter_actor_add_effect_with_name and
               \* clutter_actor_remove_effect
               !.result = <<[added |-> NonZeroMargins(fade_margins) /\ fade_effect = NULL,
                             removed |-> ~NonZeroMargins(fade_margins) /\ fade_effect # NULL]>>]
  /\ UNCHANGED <<child, hscroll, vscroll, hscrollbar_policy, vscrollbar_policy,
                 row_size, column_size, row_size_set, column_size_set,
                 mouse_scroll, overlay_scrollbars, hscrollbar_visible, vscrollbar_visible,
                 hadj_step, vadj_step, text_direction, hscroll_shown, vscroll_shown, aborted>>

(***************************************************************************)
(* The ClutterContainer overrides: st_scroll_view_add, _remove.            *)
(***************************************************************************)
ST_IS_SCROLLABLE(actor) == actor \in Scrollables

\* A plausible slip: the actor is tracked whatever its type.
AddedChildUnchecked(actor) == actor

\* The child tracked after add.
AddedChild(actor) == IF ST_IS_SCROLLABLE(actor) THEN actor ELSE child

Add(actor) ==
  /\ ~aborted
  /\ child' = AddedChild(actor)
  /\ out' = IF ST_IS_SCROLLABLE(actor)
              THEN [NoOut EXCEPT
                      !.op = "add",
                      !.arg = <<actor>>,
                      !.parent_add = <<actor>>,
                      !.adjustments = <<[actor |-> actor, hadjustment |-> "hadjustment",
                                         vadjustment |-> "vadjustment"]>>]
              ELSE [NoOut EXCEPT !.op = "add", !.arg = <<actor>>, !.warnings = 1]
  /\ UNCHANGED <<hscroll, vscroll, hscrollbar_policy, vscrollbar_policy,
                 row_size, column_size, row_size_set, column_size_set, fade_effect,
                 mouse_scroll, overlay_scrollbars, hscrollbar_visible, vscrollbar_visible,
                 env>>
  /\ UNCHANGED aborted

\* The value of the expression handed to g_assert in the last branch of
\* remove: a string literal, which is a non-null pointer.
UnknownChildAssertion == TRUE

Remove(actor) ==
  /\ ~aborted
  /\ IF actor = child
       THEN /\ child' = NULL
            /\ UNCHANGED <<hscroll, vscroll, aborted>>
            /\ out' = [NoOut EXCEPT
                         !.op = "remove",
                         !.arg = <<actor>>,
                         !.parent_remove = <<actor>>,
                         !.adjustments = <<[actor |-> actor, hadjustment |-> NULL,
                                            vadjustment |-> NULL]>>]
       ELSE /\ UNCHANGED child
            /\ vscroll' = IF actor = vscroll THEN NULL ELSE vscroll
            /\ hscroll' = IF actor # vscroll /\ actor = hscroll THEN NULL ELSE hscroll
            /\ aborted' = (actor # vscroll /\ actor # hscroll /\ ~UnknownChildAssertion)
            /\ out' = [NoOut EXCEPT
                         !.op = "remove",
                         !.arg = <<actor>>,
                         !.remove_child = IF aborted' THEN <<>> ELSE <<actor>>]
  /\ UNCHANGED <<hscrollbar_policy, vscrollbar_policy,
                 row_size, column_size, row_size_set, column_size_set, fade_effect,
                 mouse_scroll, overlay_scrollbars, hscrollbar_visible, vscrollbar_visible,
                 env>>

(***************************************************************************)
(* The collaborators: what the widget reads from them changes outside it.  *)
(***************************************************************************)
\* clutter_actor_set_text_direction on the widget
SetTextDirection(direction) ==
  /\ ~aborted
  /\ text_direction # direction
  /\ text_direction' = direction
  /\ out' = [NoOut EXCEPT !.op = "set_text_direction", !.arg = <<direction>>]
  /\ UNCHANGED <<priv, hadj_step, vadj_step, effects, hscroll_shown, vscroll_shown, aborted>>

\* clutter_actor_show / clutter_actor_hide on a scrollbar actor
ShowScrollbars(hshown, vshown) ==
  /\ ~aborted
  /\ <<hshown, vshown>> # <<hscroll_shown, vscroll_shown>>
  /\ hscroll_shown' = hshown
  /\ vscroll_shown' = vshown
  /\ out' = [NoOut EXCEPT !.op = "show_scrollbars", !.arg = <<hshown, vshown>>]
  /\ UNCHANGED <<priv, hadj_step, vadj_step, effects, text_direction, aborted>>

(***************************************************************************)
(* Inputs.                                                                 *)
(***************************************************************************)
\* The step increment of a newly made StAdjustment.
DefaultStepIncrement == 0

\* Size reports: the child's minimum width cmw, its minimum height hw when
\* measured at width wrap or more and hn below, natural sizes extra above the
\* minimum, the theme's inset, the scrollbars' thickness.
Reports(cmw, hw, hn) ==
  [cmw |-> cmw, extra |-> 1, wrap |-> MaxDim - 1, hw |-> hw, hn |-> hn,
   inset |-> 1, sbw |-> 1, sbh |-> 1]

\* The widths MaxDim - 2, MaxDim - 1 and MaxDim (below, at and above the
\* width of the main content box), the heights MaxDim - 1, MaxDim and
\* MaxDim + 1; the height below the wrap width differs from the one above
\* it by at most one.
LayoutReports ==
  {r \in {Reports(cmw, hw, hn) : cmw \in (MaxDim - 2)..MaxDim,
                                 hw \in (MaxDim - 1)..(MaxDim + 1),
                                 hn \in (MaxDim - 1)..(MaxDim + 1)} :
     r.hn <= r.hw + 1 /\ r.hw <= r.hn + 1}

FewReports == {Reports(MaxDim, MaxDim + 1, MaxDim), Reports(0, MaxDim - 1, MaxDim - 1)}

Box(w, h) == [x1 |-> 0, y1 |-> 0, x2 |-> w, y2 |-> h]

\* A box whose content box is MaxDim - 1 wide and MaxDim high.
MainBox == Box(MaxDim + 1, MaxDim + 2)

\* A box smaller than the theme's insets.
TinyBox == Box(1, 1)

LayoutInputs == ({MainBox} \X LayoutReports) \cup ({TinyBox} \X FewReports)

FewInputs == {MainBox} \X FewReports

\* The worked scenario of the specification: a content box of 300 x 200,
\* scrollbars 16 thick, a child with minimum width 290 whose minimum height
\* is 250 at width 300 and 150 at width 284.
ScenarioReport ==
  [cmw |-> 290, extra |-> 1, wrap |-> 300, hw |-> 250, hn |-> 150,
   inset |-> 1, sbw |-> 16, sbh |-> 16]

ScenarioBox == Box(302, 202)

ScenarioInput == <<ScenarioBox, ScenarioReport>>

RequestInputs == FewInputs \cup ({TinyBox} \X FewReports) \cup {ScenarioInput}

ForSizes == {-1, MaxDim + 1}

SmoothEvents ==
  [emulated : BOOLEAN, direction : {CLUTTER_SCROLL_SMOOTH}, dx : (-MaxDelta)..MaxDelta, dy : (-MaxDelta)..MaxDelta]

\* Discrete events, and an event whose direction is no ClutterScrollDirection.
DiscreteEvents ==
  [emulated : BOOLEAN,
   direction : (ClutterScrollDirection \ {CLUTTER_SCROLL_SMOOTH}) \cup {"INVALID"},
   dx : {0}, dy : {0}]

ScrollEvents == SmoothEvents \cup DiscreteEvents

FewScrollEvents ==
  {e \in ScrollEvents : ~e.emulated /\ e.dx = e.dy /\ e.dx # 0 /\ e.direction \in {CLUTTER_SCROLL_SMOOTH, CLUTTER_SCROLL_LEFT}}

Margins == [left : {0, 1}, right : {0}, top : {0, 1}, bottom : {0}]

FewMargins == {m \in Margins : m.top = 0}

StepSizes == (-1)..MaxStep

FewStepSizes == {-1, MaxStep}

FewPolicies == {ST_POLICY_AUTOMATIC, ST_POLICY_NEVER}

(***************************************************************************)
(* st_scroll_view_init.                                                    *)
(***************************************************************************)
Init ==
  /\ child = NULL
  /\ hscroll = HScrollBar
  /\ vscroll = VScrollBar
  /\ hscrollbar_policy = ST_POLICY_AUTOMATIC
  /\ vscrollbar_policy = ST_POLICY_AUTOMATIC
  /\ row_size = 0
  /\ column_size = 0
  /\ row_size_set = FALSE
  /\ column_size_set = FALSE
  /\ fade_effect = NULL
  /\ mouse_scroll = TRUE
  /\ overlay_scrollbars = FALSE
  /\ hscrollbar_visible = FALSE
  /\ vscrollbar_visible = FALSE
  /\ hadj_step = DefaultStepIncrement
  /\ vadj_step = DefaultStepIncrement
  /\ effects = <<>>
  /\ text_direction = CLUTTER_TEXT_DIRECTION_LTR
  /\ hscroll_shown = TRUE
  /\ vscroll_shown = TRUE
  /\ aborted = FALSE
  /\ out = NoOut

(***************************************************************************)
(* The layout specification: the operations and collaborators that decide  *)
(* a layout, with many boxes and size reports.                             *)
(***************************************************************************)
LayoutSetPolicy == \E h \in StPolicyType, v \in StPolicyType : SetPolicy(h, v)
LayoutSetOverlayScrollbars == \E b \in BOOLEAN : SetOverlayScrollbars(b)
LayoutAdd == Add("c1")
LayoutRemove == Remove("c1")
LayoutSetTextDirection == \E d \in ClutterTextDirection : SetTextDirection(d)
LayoutShowScrollbars == \E vs \in BOOLEAN : ShowScrollbars(TRUE, vs)
LayoutAllocate == \E i \in LayoutInputs : Allocate(i[1], i[2])

NextLayout ==
  \/ LayoutSetPolicy
  \/ LayoutSetOverlayScrollbars
  \/ LayoutAdd
  \/ LayoutRemove
  \/ LayoutSetTextDirection
  \/ LayoutShowScrollbars
  \/ LayoutAllocate

SpecLayout == Init /\ [][NextLayout]_vars

(***************************************************************************)
(* The specification of all operations, with few inputs to each.           *)
(***************************************************************************)
DoSetPolicy == \E h \in FewPolicies, v \in FewPolicies : SetPolicy(h, v)
DoSetOverlayScrollbars == \E b \in BOOLEAN : SetOverlayScrollbars(b)
DoSetMouseScrolling == \E b \in BOOLEAN : SetMouseScrolling(b)
DoSetRowSize == \E size \in FewStepSizes : SetRowSize(size)
DoSetColumnSize == \E size \in FewStepSizes : SetColumnSize(size)
DoAdd == \E actor \in {"c1", "w1"} : Add(actor)
DoRemove == \E actor \in {"c1", "w1"} : Remove(actor)
DoScrollEvent == \E event \in FewScrollEvents : ScrollEvent(event)
DoUpdateFadeEffect == \E m \in FewMargins : UpdateFadeEffect(m)
DoGetPreferredWidth == \E r \in FewReports : GetPreferredWidth(-1, r)
DoGetPreferredHeight == \E r \in FewReports : GetPreferredHeight(MaxDim + 1, r)
DoAllocate == \E i \in FewInputs : Allocate(i[1], i[2])

Next ==
  \/ DoSetPolicy
  \/ DoSetOverlayScrollbars
  \/ DoSetMouseScrolling
  \/ DoSetRowSize
  \/ DoSetColumnSize
  \/ DoAdd
  \/ DoRemove
  \/ DoScrollEvent
  \/ DoUpdateFadeEffect
  \/ DoGetPreferredWidth
  \/ DoGetPreferredHeight
  \/ DoAllocate

Spec == Init /\ [][Next]_vars

(***************************************************************************)
(* The scroll-event specification: every event, under both text            *)
(* directions, with mouse scrolling on and off.                            *)
(***************************************************************************)
ScrollSetMouseScrolling == \E b \in BOOLEAN : SetMouseScrolling(b)
ScrollSetTextDirection == \E d \in ClutterTextDirection : SetTextDirection(d)
ScrollScrollEvent == \E event \in ScrollEvents : ScrollEvent(event)

NextScroll ==
  \/ ScrollSetMouseScrolling
  \/ ScrollSetTextDirection
  \/ ScrollScrollEvent

SpecScroll == Init /\ [][NextScroll]_vars

(***************************************************************************)
(* The container specification: add and remove of every actor.             *)
(***************************************************************************)
ContainerAdd == \E actor \in Actors : Add(actor)
ContainerRemove == \E actor \in Actors : Remove(actor)
ContainerAllocate == \E i \in FewInputs : Allocate(i[1], i[2])

NextContainer ==
  \/ ContainerAdd
  \/ ContainerRemove
  \/ ContainerAllocate

SpecContainer == Init /\ [][NextContainer]_vars

(***************************************************************************)
(* The setter specification: the fade margins and the row and column       *)
(* sizes, every value of each.                                             *)
(***************************************************************************)
SettersUpdateFadeEffect == \E m \in Margins : UpdateFadeEffect(m)
SettersSetRowSize == \E size \in StepSizes : SetRowSize(size)
SettersSetColumnSize == \E size \in StepSizes : SetColumnSize(size)

NextSetters ==
  \/ SettersUpdateFadeEffect
  \/ SettersSetRowSize
  \/ SettersSetColumnSize

SpecSetters == Init /\ [][NextSetters]_vars

(***************************************************************************)
(* The request specification: the size requests and allocate under every   *)
(* policy pair and every visibility of the scrollbar actors, with few      *)
(* inputs and the worked scenario.                                         *)
(***************************************************************************)
RequestSetPolicy == \E h \in StPolicyType, v \in StPolicyType : SetPolicy(h, v)
RequestSetOverlayScrollbars == \E b \in BOOLEAN : SetOverlayScrollbars(b)
RequestAdd == Add("c1")
RequestRemove == Remove("c1")
RequestShowScrollbars == \E hs \in BOOLEAN, vs \in BOOLEAN : ShowScrollbars(hs, vs)
RequestGetPreferredWidth == \E f \in ForSizes, r \in FewReports : GetPreferredWidth(f, r)
RequestGetPreferredHeight == \E f \in ForSizes, r \in FewReports : GetPreferredHeight(f, r)
RequestAllocate == \E i \in RequestInputs : Allocate(i[1], i[2])

NextRequest ==
  \/ RequestSetPolicy
  \/ RequestSetOverlayScrollbars
  \/ RequestAdd
  \/ RequestRemove
  \/ RequestShowScrollbars
  \/ RequestGetPreferredWidth
  \/ RequestGetPreferredHeight
  \/ RequestAllocate

SpecRequest == Init /\ [][NextRequest]_vars

(***************************************************************************)
(* Properties.                                                             *)
(***************************************************************************)
\* The number of dispatched notifications of one property.
Count(notified, prop) == Cardinality({i \in 1..Len(notified) : notified[i].prop = prop})

\* The properties that were notified.
Notified(notified) == {notified[i].prop : i \in 1..Len(notified)}

Width(box) == box.x2 - box.x1

\* C1: right after allocate, an axis whose policy is ALWAYS has its stored
\* visibility flag true and an axis whose policy is NEVER or EXTERNAL has it
\* false, with or without a child, for every box and size report.
C1_FixedPolicyDecidesFlag ==
  out.op = "allocate" =>
    /\ hscrollbar_policy = ST_POLICY_ALWAYS => hscrollbar_visible
    /\ hscrollbar_policy \in {ST_POLICY_NEVER, ST_POLICY_EXTERNAL} => ~hscrollbar_visible
    /\ vscrollbar_policy = ST_POLICY_ALWAYS => vscrollbar_visible
    /\ vscrollbar_policy \in {ST_POLICY_NEVER, ST_POLICY_EXTERNAL} => ~vscrollbar_visible

\* An allocate without a child turned the horizontal flag on for ALWAYS and
\* the vertical flag off for EXTERNAL.
C1_Witness ==
  /\ out.op = "allocate"
  /\ child = NULL
  /\ hscrollbar_policy = ST_POLICY_ALWAYS
  /\ vscrollbar_policy = ST_POLICY_EXTERNAL
  /\ Notified(out.notified) = {PROP_HSCROLLBAR_VISIBLE, PROP_VSCROLLBAR_VISIBLE}

\* C2: when one allocate changes both visibility flags, every observer of
\* either notification reads both flags at their new values: the two
\* notifications are delivered as one group.
C2_NotificationsGrouped ==
  (/\ out.op = "allocate"
   /\ Notified(out.notified) = {PROP_HSCROLLBAR_VISIBLE, PROP_VSCROLLBAR_VISIBLE})
  => \A i \in 1..Len(out.notified) :
       /\ out.notified[i].hvis = hscrollbar_visible
       /\ out.notified[i].vvis = vscrollbar_visible

\* C3: the stored visibility flags are changed by allocate only, and an
\* allocate dispatches exactly one notification for each flag it changed,
\* none for a flag it left equal, and no other notification.
C3_FlagsChangeInAllocateOnly ==
  [][/\ out'.op # "allocate" =>
          /\ hscrollbar_visible' = hscrollbar_visible
          /\ vscrollbar_visible' = vscrollbar_visible
     /\ out'.op = "allocate" =>
          /\ Count(out'.notified, PROP_HSCROLLBAR_VISIBLE)
               = (IF hscrollbar_visible' # hscrollbar_visible THEN 1 ELSE 0)
          /\ Count(out'.notified, PROP_VSCROLLBAR_VISIBLE)
               = (IF vscrollbar_visible' # vscrollbar_visible THEN 1 ELSE 0)
          /\ Notified(out'.notified) \subseteq {PROP_HSCROLLBAR_VISIBLE, PROP_VSCROLLBAR_VISIBLE}]_vars

\* An allocate changed one flag and left the other equal.
C3_Witness ==
  /\ out.op = "allocate"
  /\ Len(out.notified) = 1
  /\ out.notified[1].prop = PROP_VSCROLLBAR_VISIBLE
  /\ hscrollbar_visible # vscrollbar_visible

\* C4: an allocate that directly follows an allocate with the same box and
\* the same size reports gives the child and both scrollbars the same boxes,
\* leaves both flags as they are and dispatches no notification.
C4_AllocateIdempotent ==
  [][(out.op = "allocate" /\ out'.op = "allocate" /\ out'.arg = out.arg) =>
       /\ out'.child_box = out.child_box
       /\ out'.vscroll_box = out.vscroll_box
       /\ out'.hscroll_box = out.hscroll_box
       /\ hscrollbar_visible' = hscrollbar_visible
       /\ vscrollbar_visible' = vscrollbar_visible
       /\ out'.notified = <<>>]_vars

\* The second of two equal allocate calls, with a child and with both
\* scrollbars visible.
C4_Witness ==
  /\ out.op = "allocate"
  /\ out.repeated
  /\ child # NULL
  /\ hscrollbar_visible
  /\ vscrollbar_visible
  /\ out.result[1].sb_width > 0

\* C5 as stated: add changes nothing (the tracked child stays, no
\* set_adjustments call) when the actor is not scrollable and also when it is
\* scrollable but a child is already tracked.
C5_AddRejectsSecondChild ==
  [][(out'.op = "add" /\ (~ST_IS_SCROLLABLE(out'.arg[1]) \/ child # NULL)) =>
       /\ child' = child
       /\ out'.adjustments = <<>>]_vars

\* C5 as amended: add of an actor that is not scrollable changes nothing (the
\* tracked child stays, nothing is handed to the parent's add, no
\* set_adjustments call); add of a scrollable actor makes it the tracked
\* child and gives it both adjustments, whether or not a child was tracked.
C5_AddTracksScrollable ==
  [][out'.op = "add" =>
       IF ST_IS_SCROLLABLE(out'.arg[1])
         THEN /\ child' = out'.arg[1]
              /\ out'.parent_add = <<out'.arg[1]>>
              /\ out'.adjustments = <<[actor |-> out'.arg[1], hadjustment |-> "hadjustment",
                                       vadjustment |-> "vadjustment"]>>
         ELSE /\ child' = child
              /\ out'.parent_add = <<>>
              /\ out'.adjustments = <<>>
              /\ out'.warnings = 1]_vars

\* An actor that is not scrollable was added while a child is tracked.
C5_Witness ==
  /\ out.op = "add"
  /\ out.arg[1] \in NonScrollables
  /\ out.warnings = 1
  /\ child \in Scrollables

\* C6: remove of an actor that is neither the tracked child nor a scrollbar
\* ends in a fatal assertion failure and does not go on to
\* clutter_actor_remove_child.
C6_UnknownRemoveAborts ==
  [][(out'.op = "remove" /\ out'.arg[1] \notin {child, hscroll, vscroll}) =>
       /\ aborted'
       /\ out'.remove_child = <<>>]_vars

\* C7: after set_policy (h, v) the two policy properties read (h, v); a call
\* with the stored pair notifies nothing and requests no relayout; a call
\* that changes an axis notifies each changed axis once, no other, and
\* requests exactly one relayout.
C7_SetPolicyRoundTrip ==
  [][out'.op = "set_policy" =>
       /\ GetProperty(PROP_HSCROLLBAR_POLICY)' = out'.arg[1]
       /\ GetProperty(PROP_VSCROLLBAR_POLICY)' = out'.arg[2]
       /\ Count(out'.notified, PROP_HSCROLLBAR_POLICY)
            = (IF hscrollbar_policy # out'.arg[1] THEN 1 ELSE 0)
       /\ Count(out'.notified, PROP_VSCROLLBAR_POLICY)
            = (IF vscrollbar_policy # out'.arg[2] THEN 1 ELSE 0)
       /\ Notified(out'.notified) \subseteq {PROP_HSCROLLBAR_POLICY, PROP_VSCROLLBAR_POLICY}
       /\ out'.relayouts
            = (IF <<hscrollbar_policy, vscrollbar_policy>> = <<out'.arg[1], out'.arg[2]>>
                 THEN 0 ELSE 1)]_vars

\* A set_policy that changed both axes to different values.
C7_Witness ==
  /\ out.op = "set_policy"
  /\ Len(out.notified) = 2
  /\ out.relayouts = 1
  /\ hscrollbar_policy = ST_POLICY_NEVER
  /\ vscrollbar_policy = ST_POLICY_EXTERNAL

\* What C8 says about the scrollbars' boxes: the vertical scrollbar's box
\* lies against the leading edge of the content box under right-to-left and
\* against the trailing edge otherwise, and the horizontal scrollbar's box
\* starts after it or ends before it.
ScrollbarsMirrored ==
  LET cb == out.content_box[1]
      vb == out.vscroll_box[1]
      hb == out.hscroll_box[1]
  IN IF text_direction = CLUTTER_TEXT_DIRECTION_RTL
       THEN vb.x1 = cb.x1 /\ hb.x1 = vb.x2 /\ hb.x2 = cb.x2
       ELSE vb.x2 = cb.x2 /\ hb.x2 = vb.x1 /\ hb.x1 = cb.x1

\* What C8 says about the child's box: it starts after or ends before the
\* vertical scrollbar's box, and the two widths add up to the content width.
ChildBesideVScroll ==
  LET cb == out.content_box[1]
      vb == out.vscroll_box[1]
      chb == out.child_box[1]
  IN /\ IF text_direction = CLUTTER_TEXT_DIRECTION_RTL
          THEN chb.x1 = vb.x2 /\ chb.x2 = cb.x2
          ELSE chb.x2 = vb.x1 /\ chb.x1 = cb.x1
     /\ Width(vb) + Width(chb) = Width(cb)

\* The case of C8: allocate, both policies AUTOMATIC, a child, the vertical
\* scrollbar visible.
C8_Case ==
  /\ out.op = "allocate"
  /\ child # NULL
  /\ hscrollbar_policy = ST_POLICY_AUTOMATIC
  /\ vscrollbar_policy = ST_POLICY_AUTOMATIC
  /\ vscrollbar_visible

\* C8 as stated: in that case the scrollbars' boxes are mirrored with the
\* text direction, the child's box lies beside the vertical scrollbar's box
\* and their widths add up to the content width.
C8_MirroredBoxesFillContent ==
  C8_Case => ScrollbarsMirrored /\ ChildBesideVScroll

\* C8 as amended: in that case the scrollbars' boxes are mirrored with the
\* text direction; with overlay scrollbars off the child's box lies beside
\* the vertical scrollbar's box and their widths add up to the content width;
\* with overlay scrollbars on the child's box spans the whole content width.
C8_MirroredBoxesUnlessOverlay ==
  C8_Case =>
    /\ ScrollbarsMirrored
    /\ ~overlay_scrollbars => ChildBesideVScroll
    /\ overlay_scrollbars =>
         /\ out.child_box[1].x1 = out.content_box[1].x1
         /\ out.child_box[1].x2 = out.content_box[1].x2

\* The case of C8 under right-to-left, overlay scrollbars off, with a
\* vertical scrollbar that takes width.
C8_Witness ==
  /\ C8_Case
  /\ text_direction = CLUTTER_TEXT_DIRECTION_RTL
  /\ ~overlay_scrollbars
  /\ out.result[1].sb_width > 0
  /\ Width(out.content_box[1]) > 0

\* The scroll event that was handled last.
LastEvent == out.arg[1]

\* C9: with mouse scrolling on and an event that is not pointer-emulated, a
\* smooth event forwards dx (negated under right-to-left) to the horizontal
\* adjustment and dy to the vertical one; UP/DOWN forward -1/+1 to the
\* vertical adjustment only, whatever the text direction; LEFT/RIGHT forward
\* -1/+1 to the horizontal adjustment only, +1/-1 under right-to-left.
C9_ScrollDeltas ==
  (out.op = "scroll_event" /\ mouse_scroll /\ ~LastEvent.emulated) =>
    LET rtl == text_direction = CLUTTER_TEXT_DIRECTION_RTL
    IN /\ LastEvent.direction = CLUTTER_SCROLL_SMOOTH =>
            /\ out.hdeltas = <<IF rtl THEN 0 - LastEvent.dx ELSE LastEvent.dx>>
            /\ out.vdeltas = <<LastEvent.dy>>
       /\ LastEvent.direction = CLUTTER_SCROLL_UP =>
            out.vdeltas = <<-1>> /\ out.hdeltas = <<>>
       /\ LastEvent.direction = CLUTTER_SCROLL_DOWN =>
            out.vdeltas = <<1>> /\ out.hdeltas = <<>>
       /\ LastEvent.direction = CLUTTER_SCROLL_LEFT =>
            out.hdeltas = <<IF rtl THEN 1 ELSE -1>> /\ out.vdeltas = <<>>
       /\ LastEvent.direction = CLUTTER_SCROLL_RIGHT =>
            out.hdeltas = <<IF rtl THEN -1 ELSE 1>> /\ out.vdeltas = <<>>

\* A smooth event with a horizontal delta was routed under right-to-left.
C9_Witness ==
  /\ out.op = "scroll_event"
  /\ mouse_scroll
  /\ ~LastEvent.emulated
  /\ text_direction = CLUTTER_TEXT_DIRECTION_RTL
  /\ LastEvent.direction = CLUTTER_SCROLL_SMOOTH
  /\ LastEvent.dx = MaxDelta
  /\ LastEvent.dy = MaxDelta
  /\ out.hdeltas = <<0 - MaxDelta>>

\* C10: with mouse scrolling off an event is reported unhandled and no
\* adjustment receives a delta; with mouse scrolling on every event is
\* reported handled, and a pointer-emulated one gives no adjustment a delta.
C10_ScrollHandled ==
  out.op = "scroll_event" =>
    /\ ~mouse_scroll =>
         out.result = <<FALSE>> /\ out.hdeltas = <<>> /\ out.vdeltas = <<>>
    /\ mouse_scroll =>
         /\ out.result = <<TRUE>>
         /\ LastEvent.emulated => out.hdeltas = <<>> /\ out.vdeltas = <<>>

\* A pointer-emulated smooth event arrived with mouse scrolling on.
C10_Witness ==
  /\ out.op = "scroll_event"
  /\ mouse_scroll
  /\ LastEvent.emulated
  /\ LastEvent.direction = CLUTTER_SCROLL_SMOOTH
  /\ LastEvent.dx # 0
  /\ out.result = <<TRUE>>
  /\ out.hdeltas = <<>>

\* The margins of the last update_fade_effect call.
LastMargins == out.arg[1]

\* C11: a fade effect is attached iff the most recent update_fade_effect
\* call had a margin other than zero, and then it is the only one and
\* carries the margins of that call; a call with such a margin adds an effect
\* only when none was attached, a call with four zero margins removes the
\* attached effect and clears the stored reference; no other operation
\* touches the effect.
C11_FadeEffectFollowsMargins ==
  [][/\ out'.op = "update_fade_effect" =>
          LET m == out'.arg[1]
              nonzero == m.left # 0 \/ m.right # 0 \/ m.top # 0 \/ m.bottom # 0
          IN /\ (fade_effect' # NULL) <=> nonzero
             /\ effects' = (IF nonzero THEN <<m>> ELSE <<>>)
             /\ out'.result[1].added <=> (nonzero /\ fade_effect = NULL)
             /\ out'.result[1].removed <=> (~nonzero /\ fade_effect # NULL)
     /\ out'.op # "update_fade_effect" =>
          /\ fade_effect' = fade_effect
          /\ effects' = effects]_vars

\* A call with only the top margin set found an effect attached, added none
\* and left the one effect with the new margins.
C11_Witness ==
  /\ out.op = "update_fade_effect"
  /\ LastMargins.top # 0
  /\ LastMargins.left = 0
  /\ ~out.result[1].added
  /\ fade_effect # NULL
  /\ effects = <<LastMargins>>

\* C12: when set_row_size with a negative value directly follows
\* set_row_size with a non-negative value, the override is unset and
\* get_row_size returns the adjustment's default step increment; the same
\* for set_column_size and get_column_size.
C12_NegativeSizeRestoresDefault ==
  [][/\ (out.op = "set_row_size" /\ out.arg[1] >= 0
          /\ out'.op = "set_row_size" /\ out'.arg[1] < 0) =>
            /\ ~row_size_set'
            /\ GetRowSize' = DefaultStepIncrement
     /\ (out.op = "set_column_size" /\ out.arg[1] >= 0
          /\ out'.op = "set_column_size" /\ out'.arg[1] < 0) =>
            /\ ~column_size_set'
            /\ GetColumnSize' = DefaultStepIncrement]_vars

\* The last operation was allocate on the worked scenario: a child, both
\* policies AUTOMATIC, both scrollbar actors present and shown.
ScenarioAllocated ==
  /\ out.op = "allocate"
  /\ out.arg = ScenarioInput
  /\ child # NULL
  /\ hscrollbar_policy = ST_POLICY_AUTOMATIC
  /\ vscrollbar_policy = ST_POLICY_AUTOMATIC
  /\ hscroll # NULL /\ hscroll_shown
  /\ vscroll # NULL /\ vscroll_shown

\* C13: in the worked scenario (content box 300 x 200, both policies
\* AUTOMATIC, both scrollbars 16 thick, child minimum width 290, child
\* minimum height 250 at width 300 and 150 at width 284) allocate ends with
\* both visibility flags true.
C13_ScenarioBothVisible ==
  ScenarioAllocated => hscrollbar_visible /\ vscrollbar_visible

\* Allocate ran on the scenario: the content box was 300 x 200, the child
\* was measured at widths 300 and 284, both flags were notified.
C13_Witness ==
  /\ ScenarioAllocated
  /\ Width(out.content_box[1]) = 300
  /\ out.content_box[1].y2 - out.content_box[1].y1 = 200
  /\ out.measured = <<300, 284>>
  /\ out.result[1].child_min_height = 150
  /\ Notified(out.notified) = {PROP_HSCROLLBAR_VISIBLE, PROP_VSCROLLBAR_VISIBLE}

LayoutOperations == {"get_preferred_width", "get_preferred_height", "allocate"}

\* C14: get_preferred_width, get_preferred_height and allocate request no
\* relayout; an operation that requests one is set_policy or
\* set_overlay_scrollbars, and it changed a stored value.
C14_NoRelayoutFromLayout ==
  [][/\ out'.op \in LayoutOperations => out'.relayouts = 0
     /\ out'.relayouts > 0 =>
          \/ /\ out'.op = "set_policy"
             /\ <<hscrollbar_policy', vscrollbar_policy'>> # <<hscrollbar_policy, vscrollbar_policy>>
          \/ /\ out'.op = "set_overlay_scrollbars"
             /\ overlay_scrollbars' # overlay_scrollbars]_vars

\* An allocate with a child changed a visibility flag and requested no
\* relayout.
C14_Witness ==
  /\ out.op = "allocate"
  /\ child # NULL
  /\ out.notified # <<>>
  /\ out.relayouts = 0

Height(box) == box.y2 - box.y1

\* C15: after allocate with a child, the vertical policy not AUTOMATIC and
\* the horizontal policy AUTOMATIC, the vertical flag is true iff the
\* vertical policy is ALWAYS, and the horizontal flag is true iff the child's
\* minimum width exceeds the available height less the vertical scrollbar's
\* thickness when the vertical scrollbar is visible, less nothing when it is
\* not.
C15_HorizontalAgainstHeight ==
  (/\ out.op = "allocate"
   /\ child # NULL
   /\ vscrollbar_policy # ST_POLICY_AUTOMATIC
   /\ hscrollbar_policy = ST_POLICY_AUTOMATIC)
  => /\ vscrollbar_visible <=> (vscrollbar_policy = ST_POLICY_ALWAYS)
     /\ hscrollbar_visible <=>
          (out.arg[2].cmw > Height(out.content_box[1])
                              - (IF vscrollbar_visible THEN out.result[1].sb_width ELSE 0))

\* C16 as stated: in the worked scenario the horizontal decision is false
\* when pass two begins and pass two sets it to true.
C16_SecondPassFlipsHorizontal ==
  ScenarioAllocated => (~out.result[1].h_pass_one /\ hscrollbar_visible)

\* Pass two of the both-AUTOMATIC branch ran in the last allocate.
PassTwoRan ==
  /\ out.op = "allocate"
  /\ child # NULL
  /\ hscrollbar_policy = ST_POLICY_AUTOMATIC
  /\ vscrollbar_policy = ST_POLICY_AUTOMATIC
  /\ vscrollbar_visible

\* C16 as amended: whenever pass two of the both-AUTOMATIC branch runs, it
\* measures the child a second time, at the width left beside the vertical
\* scrollbar, and the horizontal decision it stores is the one pass one had
\* reached; in the worked scenario the horizontal decision is already true
\* when pass two begins, the child is measured at 300 and then at 284, and
\* the decision stays true.
C16_SecondPassKeepsHorizontal ==
  /\ PassTwoRan =>
       /\ Len(out.measured) = 2
       /\ out.measured[2] = Max(Width(out.content_box[1]) - out.result[1].sb_width, 0)
       /\ out.result[1].h_pass_one = hscrollbar_visible
  /\ ScenarioAllocated =>
       /\ out.result[1].h_pass_one
       /\ hscrollbar_visible
       /\ out.measured = <<300, 284>>

\* Pass two ran on the worked scenario with scrollbars 16 thick, and the
\* horizontal decision was true before it and after it.
C16_Witness ==
  /\ ScenarioAllocated
  /\ PassTwoRan
  /\ out.result[1].sb_width = 16
  /\ out.result[1].h_pass_one
  /\ hscrollbar_visible

\* C17: after allocate with a child, the vertical policy AUTOMATIC, overlay
\* scrollbars off and a shown vertical scrollbar actor of positive
\* thickness, a vertical flag computed false means the child's box is as
\* wide as the content box.
C17_UnneededWidthGivenBack ==
  (/\ out.op = "allocate"
   /\ child # NULL
   /\ vscrollbar_policy = ST_POLICY_AUTOMATIC
   /\ ~overlay_scrollbars
   /\ vscroll # NULL /\ vscroll_shown
   /\ out.result[1].sb_width > 0
   /\ ~vscrollbar_visible)
  => Width(out.child_box[1]) = Width(out.content_box[1])

\* C18: in one state and for the same size reports, what
\* get_preferred_height takes off its for_width before it measures the child
\* is what get_preferred_width adds for the vertical scrollbar, and is the
\* width allocate keeps from the child's box.  The three operations leave
\* the policies, the overlay setting and the actors as they are, so
\* consecutive calls run in one state.
C18_MeasuredAtAllocatedWidth ==
  [][/\ (/\ out.op = "get_preferred_width" /\ out.result # <<>>
         /\ out'.op = "get_preferred_height"
         /\ out'.arg[2] = out.arg[2])
          => out'.result[1].subtracted = out.result[1].allowance
     /\ (/\ out.op = "get_preferred_height" /\ out.result # <<>>
         /\ out'.op = "allocate"
         /\ out'.arg[2] = out.arg[2])
          => Width(out'.content_box[1]) - Width(out'.child_box[1]) = out.result[1].subtracted]_vars

\* The allowance C19 describes: the vertical scrollbar's minimum width if
\* the vertical policy is ALWAYS or AUTOMATIC, overlay scrollbars is false
\* and the vertical scrollbar actor is visible, and 0 otherwise.
C19_Allowance(r) ==
  IF /\ vscrollbar_policy \in {ST_POLICY_ALWAYS, ST_POLICY_AUTOMATIC}
     /\ ~overlay_scrollbars
     /\ vscroll # NULL /\ vscroll_shown
    THEN r.sbw ELSE 0

\* C19: with a child, get_preferred_width reports, before the theme's
\* insets are added, minimum = (the child's minimum width if the horizontal
\* policy is NEVER, else 0) + a and natural = the child's natural width + a,
\* a being that allowance; the insets are then added to both.
C19_PreferredWidth ==
  (out.op = "get_preferred_width" /\ child # NULL) =>
    LET r == out.arg[2]
        a == C19_Allowance(r)
    IN /\ out.result[1].min_content
            = (IF hscrollbar_policy = ST_POLICY_NEVER THEN r.cmw ELSE 0) + a
       /\ out.result[1].nat_content = (r.cmw + r.extra) + a
       /\ out.result[1].min = out.result[1].min_content + 2 * r.inset
       /\ out.result[1].nat = out.result[1].nat_content + 2 * r.inset

\* get_preferred_width ran with a child of positive minimum width, the
\* horizontal policy NEVER and an allowance for the vertical scrollbar.
C19_Witness ==
  /\ out.op = "get_preferred_width"
  /\ child # NULL
  /\ hscrollbar_policy = ST_POLICY_NEVER
  /\ vscrollbar_policy = ST_POLICY_AUTOMATIC
  /\ out.arg[2].cmw > 0
  /\ out.result[1].allowance > 0
  /\ out.result[1].min_content = out.arg[2].cmw + out.arg[2].sbw

\* C20: an allocate that ends with no child tracked, whatever its box,
\* leaves each flag true for ALWAYS and AUTOMATIC and false for NEVER and
\* EXTERNAL; so does the allocate that directly follows the removal of the
\* tracked child.
C20_NoChildPolicyDecides ==
  [][/\ (out'.op = "allocate" /\ child' = NULL) =>
          /\ hscrollbar_visible'
               = (hscrollbar_policy' \in {ST_POLICY_ALWAYS, ST_POLICY_AUTOMATIC})
          /\ vscrollbar_visible'
               = (vscrollbar_policy' \in {ST_POLICY_ALWAYS, ST_POLICY_AUTOMATIC})
     /\ (out.op = "remove" /\ out.parent_remove # <<>> /\ out'.op = "allocate") =>
          /\ child' = NULL
          /\ hscrollbar_visible'
               = (hscrollbar_policy \in {ST_POLICY_ALWAYS, ST_POLICY_AUTOMATIC})
          /\ vscrollbar_visible'
               = (vscrollbar_policy \in {ST_POLICY_ALWAYS, ST_POLICY_AUTOMATIC})]_vars

\* An allocate of the smallest box without a child turned the horizontal
\* flag on for AUTOMATIC and left the vertical flag off for NEVER.
C20_Witness ==
  /\ out.op = "allocate"
  /\ out.arg[1] = TinyBox
  /\ child = NULL
  /\ hscrollbar_policy = ST_POLICY_AUTOMATIC
  /\ vscrollbar_policy = ST_POLICY_NEVER
  /\ hscrollbar_visible
  /\ ~vscrollbar_visible
  /\ Notified(out.notified) = {PROP_HSCROLLBAR_VISIBLE}

\* C21: after allocate with a child, a horizontal flag computed false under
\* the horizontal policy AUTOMATIC means the child's box is at least as wide
\* as the child's minimum width, and a vertical flag computed false under
\* the vertical policy AUTOMATIC means the child's box is at least as high
\* as the child's minimum height as allocate measured it.
C21_NoOverflowWithoutScrollbar ==
  (out.op = "allocate" /\ child # NULL) =>
    /\ (hscrollbar_policy = ST_POLICY_AUTOMATIC /\ ~hscrollbar_visible) =>
         Width(out.child_box[1]) >= out.arg[2].cmw
    /\ (vscrollbar_policy = ST_POLICY_AUTOMATIC /\ ~vscrollbar_visible) =>
         Height(out.child_box[1]) >= out.result[1].child_min_height

====
